---- MODULE Spec2Model ----
(***************************************************************************)
(* A model of two parts of proj4rs:                                        *)
(*                                                                         *)
(*   - src/adaptors/geo_types.rs: the Transform implementations for the    *)
(*     geo_types shapes Coord, Point, MultiPoint, Line and LineString      *)
(*     (specification SpecGeo);                                            *)
(*   - src/projections/lcc.rs: the Lambert Conformal Conic projection,     *)
(*     its init, forward and inverse (specification SpecLcc).              *)
(***************************************************************************)
EXTENDS Integers, Sequences, FiniteSets, TLC

(***************************************************************************)
(*                         PART 1: geo_types adaptors                      *)
(***************************************************************************)

\* Longest MultiPoint / LineString of the model.
MaxLen == 3

\* The coordinate values of the model: geo_types::Coord { x, y }.
Coords == { [x |-> 0, y |-> 0], [x |-> 1, y |-> 0], [x |-> 1, y |-> 1] }

\* The errors a closure may return (two members of errors::Error, so that
\* "that leaf's error" and "a later leaf's error" can differ).
ClosureErrors == { "ToleranceConditionError", "NanCoordinateValue" }

\* errors::Result<T>.
Ok(v) == [ok |-> TRUE, val |-> v, err |-> "none"]
Err(e) == [ok |-> FALSE, val |-> <<>>, err |-> e]
\* No result yet: the call has not been made.
Pending == Err("pending")
IsPending(r) == ~r.ok /\ r.err = "pending"

\* The results of one closure invocation on an (x, y) pair.
ClosureResults == { Ok(<<c.x, c.y>>) : c \in Coords } \cup { Err(e) : e \in ClosureErrors }

\* A transform closure: stateless across invocations, so a function of the
\* pair it is given.
Closures == [ { <<c.x, c.y>> : c \in Coords } -> ClosureResults ]

\* Sequences of coordinates of length 0..MaxLen.
CoordSeqs == UNION { [1..n -> Coords] : n \in 0..MaxLen }

\* A geometry: its kind and its leaf coordinates in traversal order
\* (a Line holds start, end; a Coord and a Point hold one leaf).
Geometries ==
    { [kind |-> k, pts |-> <<c>>] : k \in {"Coord", "Point"}, c \in Coords }
    \cup { [kind |-> "Line", pts |-> <<a, b>>] : a \in Coords, b \in Coords }
    \cup { [kind |-> k, pts |-> s] : k \in {"MultiPoint", "LineString"}, s \in CoordSeqs }

VARIABLES
    geom,      \* the geometry being transformed (mutated in place)
    orig,      \* its value before the call
    f,         \* the transform closure
    res,       \* the call's result: Pending before the call, then Ok / Err
    calls,     \* the pairs the closure was invoked on, in order
    \* ---- lcc ----
    params,    \* the ParamList: lat_1, lat_2
    p,         \* the ProjData init context
    p0,        \* the init context before init
    proj,      \* Result<Projection> of init (Pending before init)
    call       \* the last forward / inverse call and its result

geoVars == <<geom, orig, f, res, calls>>
lccVars == <<params, p, p0, proj, call>>
vars == <<geom, orig, f, res, calls, params, p, p0, proj, call>>

\* What a transform_coordinates call leaves behind: the geometry, the
\* result and the closure invocations so far.
Outcome(g, r, cs) == [geom |-> g, res |-> r, calls |-> cs]

\* impl Transform for (f64, f64): one closure invocation on the pair; on
\* success the pair is overwritten with the result.
Tuple_transform_coordinates(xy, fn, cs) ==
    LET r == fn[xy]
    IN  IF r.ok THEN Outcome(r.val, Ok(<<>>), Append(cs, xy))
        ELSE Outcome(xy, Err(r.err), Append(cs, xy))

\* impl Transform for Coord.
Coord_transform_coordinates(self, fn, cs) ==
    LET o == Tuple_transform_coordinates(<<self.x, self.y>>, fn, cs)
    IN  IF ~o.res.ok THEN Outcome(self, o.res, o.calls)                 \* `?`
        ELSE Outcome([x |-> o.geom[1], y |-> o.geom[2]], Ok(<<>>), o.calls)

\* impl Transform for Point: the point's coordinate self.0.
Point_transform_coordinates(self, fn, cs) ==
    Coord_transform_coordinates(self, fn, cs)

\* Iterator::try_for_each over the elements i.. of a mutable sequence:
\* stops at the first element whose call fails and returns that error.
RECURSIVE try_for_each(_, _, _, _)
try_for_each(s, i, fn, cs) ==
    IF i > Len(s) THEN Outcome(s, Ok(<<>>), cs)
    ELSE LET o == Coord_transform_coordinates(s[i], fn, cs)
         IN  IF o.res.ok
             THEN try_for_each([s EXCEPT ![i] = o.geom], i + 1, fn, o.calls)
             ELSE Outcome([s EXCEPT ![i] = o.geom], o.res, o.calls)

\* ---- a faulty variant of try_for_each: for_each that goes on after a failure and
\* ---- reports the last error seen.
RECURSIVE for_each_keep_going(_, _, _, _, _)
for_each_keep_going(s, i, fn, cs, r) ==
    IF i > Len(s) THEN Outcome(s, r, cs)
    ELSE LET o == Coord_transform_coordinates(s[i], fn, cs)
         IN  for_each_keep_going([s EXCEPT ![i] = o.geom], i + 1, fn, o.calls,
                                 IF o.res.ok THEN r ELSE o.res)

MultiPoint_keep_going(self, fn, cs) == for_each_keep_going(self, 1, fn, cs, Ok(<<>>))

\* impl Transform for MultiPoint: self.iter_mut().try_for_each(...).
MultiPoint_transform_coordinates(self, fn, cs) == try_for_each(self, 1, fn, cs)

\* ---- a faulty variant of Line_transform_coordinates: writes each endpoint back
\* ---- as soon as it is transformed.
Line_transform_field_by_field(self, fn, cs) ==
    LET s == Point_transform_coordinates(self[1], fn, cs)
    IN  IF ~s.res.ok THEN Outcome(self, s.res, s.calls)
        ELSE LET e == Point_transform_coordinates(self[2], fn, s.calls)
             IN  Outcome(<<s.geom, e.geom>>, e.res, e.calls)

\* ---- a faulty variant of Line_transform_coordinates: transforms the end
\* ---- before the start.
Line_transform_end_first(self, fn, cs) ==
    LET e == Point_transform_coordinates(self[2], fn, cs)
    IN  IF ~e.res.ok THEN Outcome(self, e.res, e.calls)
        ELSE LET s == Point_transform_coordinates(self[1], fn, e.calls)
             IN  IF ~s.res.ok THEN Outcome(self, s.res, s.calls)
                 ELSE Outcome(<<s.geom, e.geom>>, Ok(<<>>), s.calls)

\* impl Transform for Line: start and end are copies (self.points()); the
\* line is rebuilt from them only when both calls succeeded.
Line_transform_coordinates(self, fn, cs) ==
    LET s == Point_transform_coordinates(self[1], fn, cs)
    IN  IF ~s.res.ok THEN Outcome(self, s.res, s.calls)                 \* `?`
        ELSE LET e == Point_transform_coordinates(self[2], fn, s.calls)
             IN  IF ~e.res.ok THEN Outcome(self, e.res, e.calls)        \* `?`
                 ELSE Outcome(<<s.geom, e.geom>>, Ok(<<>>), e.calls)    \* Line::new

\* impl Transform for LineString: self.coords_mut().try_for_each(...).
LineString_transform_coordinates(self, fn, cs) == try_for_each(self, 1, fn, cs)

\* The lcc variables before anything is initialised.
IdleLcc ==
    /\ params = [lat_1 |-> [k |-> "absent"], lat_2 |-> [k |-> "absent"]]
    /\ p = [phi0 |-> [some |-> FALSE], k0 |-> [some |-> FALSE]]
    /\ p0 = p
    /\ proj = Pending
    /\ call = [op |-> "none"]

InitGeo ==
    /\ IdleLcc
    /\ geom \in Geometries
    /\ orig = geom
    /\ f \in Closures
    /\ res = Pending
    /\ calls = <<>>

\* One call of transform_coordinates on the geometry, by its kind.
Finish(o) ==
    /\ geom' = [geom EXCEPT !.pts = o.geom]
    /\ res' = o.res
    /\ calls' = o.calls
    /\ UNCHANGED <<orig, f>>

TransformCoord ==
    /\ IsPending(res) /\ geom.kind = "Coord"
    /\ LET o == Coord_transform_coordinates(geom.pts[1], f, calls)
       IN  Finish(Outcome(<<o.geom>>, o.res, o.calls))
    /\ UNCHANGED lccVars

TransformPoint ==
    /\ IsPending(res) /\ geom.kind = "Point"
    /\ LET o == Point_transform_coordinates(geom.pts[1], f, calls)
       IN  Finish(Outcome(<<o.geom>>, o.res, o.calls))
    /\ UNCHANGED lccVars

TransformMultiPoint ==
    /\ IsPending(res) /\ geom.kind = "MultiPoint"
    /\ Finish(MultiPoint_transform_coordinates(geom.pts, f, calls))
    /\ UNCHANGED lccVars

TransformLine ==
    /\ IsPending(res) /\ geom.kind = "Line"
    /\ Finish(Line_transform_coordinates(geom.pts, f, calls))
    /\ UNCHANGED lccVars

TransformLineString ==
    /\ IsPending(res) /\ geom.kind = "LineString"
    /\ Finish(LineString_transform_coordinates(geom.pts, f, calls))
    /\ UNCHANGED lccVars

NextGeo ==
    \/ TransformCoord
    \/ TransformPoint
    \/ TransformMultiPoint
    \/ TransformLine
    \/ TransformLineString

\* ---- helpers of the claims ----
Pair(c) == <<c.x, c.y>>
Fails(c) == ~f[Pair(c)].ok
FromPair(xy) == [x |-> xy[1], y |-> xy[2]]
\* The index of the first leaf of the original geometry the closure fails
\* on, 0 when there is none.
FirstFail ==
    IF \E i \in 1..Len(orig.pts) : Fails(orig.pts[i])
    THEN CHOOSE i \in 1..Len(orig.pts) :
            Fails(orig.pts[i]) /\ \A j \in 1..(i - 1) : ~Fails(orig.pts[j])
    ELSE 0
Done == ~IsPending(res)
IsSeqKind == geom.kind \in {"MultiPoint", "LineString"}

(***************************************************************************)
(*                 PART 2: floating point, as the model has it             *)
(*                                                                         *)
(* lcc.rs computes in f64.  The model computes in a binary floating-point  *)
(* format of the same shape with a shorter significand: a finite number is *)
(* m * 2^e with |m| a MantBits-bit integer (or 0) and e any integer, every *)
(* operation rounds its exact result to MantBits bits, a division by zero  *)
(* gives an infinity and an invalid operation a NaN.  The sign of a zero   *)
(* is not kept.  The library functions (sin, cos, tan, ln, powf, atan,     *)
(* atan2, hypot, sqrt) are evaluated in fixed point with FixBits           *)
(* fractional bits and rounded to the format.  The tolerance EPS_10 is     *)
(* scaled with the format: it is two units in the last place of FRAC_PI_2, *)
(* so that latitudes strictly within, exactly at, and beyond the tolerance *)
(* of a pole are all representable, as they are in f64.                    *)
(*                                                                         *)
(* An operator that uses an argument more than once binds it first, in     *)
(* the form  CHOOSE r \in { body : a \in {A} } : TRUE  or with Let, so     *)
(* that the argument is computed once.                                     *)
(***************************************************************************)

\* Bits of a significand, and fractional bits of the fixed point.
MantBits == 11
FixBits == 13
Mant == 2^MantBits          \* |m| < Mant
HalfMant == 2^(MantBits - 1)  \* |m| >= HalfMant unless m = 0
Q == 2^FixBits              \* the fixed-point unit

\* F(v), with v computed once.
Let(v, F(_)) == CHOOSE r \in { F(x) : x \in {v} } : TRUE

AbsI(I) == CHOOSE r \in { IF i < 0 THEN -i ELSE i : i \in {I} } : TRUE
SgnI(I) == CHOOSE r \in { IF i < 0 THEN -1 ELSE IF i > 0 THEN 1 ELSE 0 : i \in {I} } : TRUE
\* i / d rounded to the nearest integer (half away from zero), d > 0.
RoundDiv(I, D) ==
    CHOOSE r \in { SgnI(i) * ((AbsI(i) + d \div 2) \div d) : i \in {I}, d \in {D} } : TRUE

Fin(m, e) == [k |-> "fin", m |-> m, e |-> e]
Zero == Fin(0, 0)
Inf(s) == [k |-> "inf", m |-> s, e |-> 0]
NaN == [k |-> "nan", m |-> 0, e |-> 0]

IsNaN(a) == a.k = "nan"
IsInf(a) == a.k = "inf"
IsFin(a) == a.k = "fin"
IsZero(A) == CHOOSE r \in { a.k = "fin" /\ a.m = 0 : a \in {A} } : TRUE
\* -1, 0, 1: the sign of a (0 for zero and NaN).
Sgn(a) == SgnI(a.m)

\* m * 2^e rounded to MantBits bits (half away from zero).
RECURSIVE Norm(_, _)
Norm(M, E) ==
    CHOOSE r \in {
        IF m = 0 THEN Zero
        ELSE IF AbsI(m) >= 2 * Mant
             THEN Norm(SgnI(m) * (AbsI(m) \div 2 + (IF AbsI(m) % 4 = 3 THEN 1 ELSE 0)), e + 1)
             ELSE IF AbsI(m) >= Mant THEN Norm(RoundDiv(m, 2), e + 1)
             ELSE IF AbsI(m) < HalfMant THEN Norm(2 * m, e - 1)
             ELSE Fin(m, e)
        : m \in {M}, e \in {E} } : TRUE

\* An integer as a float.
Flt(i) == Norm(i, 0)
One == Fin(HalfMant, 1 - MantBits)
Two == Fin(HalfMant, 2 - MantBits)
Half == Fin(HalfMant, -MantBits)

FNeg(A) == CHOOSE r \in { [a EXCEPT !.m = -a.m] : a \in {A} } : TRUE
FAbs(A) == CHOOSE r \in { [a EXCEPT !.m = AbsI(a.m)] : a \in {A} } : TRUE

\* a * b.
FMul(A, B) ==
    CHOOSE r \in {
        IF IsNaN(a) \/ IsNaN(b) THEN NaN
        ELSE IF IsInf(a) \/ IsInf(b)
             THEN IF IsZero(a) \/ IsZero(b) THEN NaN ELSE Inf(Sgn(a) * Sgn(b))
             ELSE Norm(a.m * b.m, a.e + b.e)
        : a \in {A}, b \in {B} } : TRUE

\* a / b.
FDiv(A, B) ==
    CHOOSE r \in {
        IF IsNaN(a) \/ IsNaN(b) THEN NaN
        ELSE IF IsInf(a) THEN (IF IsInf(b) THEN NaN
                               ELSE Inf(Sgn(a) * (IF Sgn(b) < 0 THEN -1 ELSE 1)))
        ELSE IF IsInf(b) THEN Zero
        ELSE IF IsZero(b) THEN (IF IsZero(a) THEN NaN ELSE Inf(Sgn(a)))
        ELSE IF IsZero(a) THEN Zero
        ELSE Norm(Sgn(a) * Sgn(b) * ((AbsI(a.m) * (4 * Mant)) \div AbsI(b.m)),
                  a.e - b.e - (MantBits + 2))
        : a \in {A}, b \in {B} } : TRUE

\* a + b.
FAdd(A, B) ==
    CHOOSE r \in {
        IF IsNaN(a) \/ IsNaN(b) THEN NaN
        ELSE IF IsInf(a) THEN (IF IsInf(b) /\ Sgn(a) # Sgn(b) THEN NaN ELSE a)
        ELSE IF IsInf(b) THEN b
        ELSE IF IsZero(a) THEN b
        ELSE IF IsZero(b) THEN a
        ELSE IF a.e >= b.e
             THEN (IF a.e - b.e > MantBits + 2 THEN a
                   ELSE Norm(a.m * 2^(a.e - b.e) + b.m, b.e))
             ELSE (IF b.e - a.e > MantBits + 2 THEN b
                   ELSE Norm(b.m * 2^(b.e - a.e) + a.m, a.e))
        : a \in {A}, b \in {B} } : TRUE

\* a - b.
FSub(a, b) == FAdd(a, FNeg(b))

\* The comparisons of f64: every comparison with a NaN is false.
FLt(A, B) ==
    CHOOSE r \in { ~IsNaN(a) /\ ~IsNaN(b) /\ a # b /\ Sgn(FSub(a, b)) < 0
                   : a \in {A}, b \in {B} } : TRUE
FLe(A, B) ==
    CHOOSE r \in { ~IsNaN(a) /\ ~IsNaN(b) /\ (a = b \/ FLt(a, b))
                   : a \in {A}, b \in {B} } : TRUE
FGe(a, b) == FLe(b, a)
FGt(a, b) == FLt(b, a)
FEq(A, B) == CHOOSE r \in { ~IsNaN(a) /\ a = b : a \in {A}, b \in {B} } : TRUE
FNe(a, b) == ~FEq(a, b)

\* Whether a is an integer, and whether it is an odd one.
IsInteger(A) ==
    CHOOSE r \in { IsFin(a) /\ (a.e >= 0 \/ (a.e > -MantBits /\ a.m % 2^(-a.e) = 0))
                   : a \in {A} } : TRUE
IsOddInteger(A) ==
    CHOOSE r \in { IsInteger(a) /\ a.e <= 0 /\ (AbsI(a.m) \div 2^(-a.e)) % 2 = 1
                   : a \in {A} } : TRUE

\* ---- fixed point ----
\* Whether the finite a is small enough for the fixed point, and a there.
FitsFix(A) == CHOOSE r \in { IsZero(a) \/ a.e + MantBits + FixBits <= 30 : a \in {A} } : TRUE
ToFix(A) ==
    CHOOSE r \in {
        IF a.m = 0 THEN 0
        ELSE IF a.e + FixBits >= 0 THEN a.m * 2^(a.e + FixBits)
        ELSE IF -(a.e + FixBits) > MantBits + 1 THEN 0
        ELSE RoundDiv(a.m, 2^(-(a.e + FixBits)))
        : a \in {A} } : TRUE
FromFix(v) == Norm(v, -FixBits)
\* a * b in fixed point.
MulQ(a, b) == RoundDiv(a * b, Q)

PiFix == RoundDiv(355 * Q, 113)
HalfPiFix == RoundDiv(355 * Q, 226)
QuarterPiFix == RoundDiv(355 * Q, 452)
Ln2Fix == RoundDiv(25469 * Q, 36744)

\* consts::FRAC_PI_2, FRAC_PI_4: the floats nearest pi/2 and pi/4.
FRAC_PI_2 == FromFix(HalfPiFix)
FRAC_PI_4 == FMul(Half, FRAC_PI_2)
\* One unit in the last place of FRAC_PI_2.
UlpPole == Fin(HalfMant, FRAC_PI_2.e - (MantBits - 1))
\* consts::EPS_10, the one tolerance of lcc.rs (1e-10 in f64).
EPS_10 == FMul(Two, UlpPole)

\* sin of the fixed-point angle r, |r| <= pi/2: the Taylor series to r^9.
SinSeries(R) ==
    CHOOSE s \in {
        Let(MulQ(r, r), LAMBDA r2 :
        Let(Q - r2 \div 72, LAMBDA t4 :
        Let(Q - MulQ(r2, t4) \div 42, LAMBDA t3 :
        Let(Q - MulQ(r2, t3) \div 20, LAMBDA t2 :
        Let(Q - MulQ(r2, t2) \div 6, LAMBDA t1 : MulQ(r, t1))))))
        : r \in {R} } : TRUE

\* sin of the fixed-point angle v, any v: reduced to [-pi/2, pi/2] first.
SinFix(v) ==
    Let(((v + PiFix) % (2 * PiFix)) - PiFix, LAMBDA w :
        SinSeries(IF w > HalfPiFix THEN PiFix - w
                  ELSE IF w < -HalfPiFix THEN -PiFix - w ELSE w))

\* Below this a float is its own sine and tangent, and its cosine is 1.
IsTiny(A) ==
    CHOOSE r \in { IsZero(a) \/ a.e + MantBits <= -(MantBits \div 2) : a \in {A} } : TRUE

\* f64::sin, f64::cos, f64::tan.
Sin(A) ==
    CHOOSE r \in {
        IF ~IsFin(a) THEN NaN
        ELSE IF IsTiny(a) THEN a
        ELSE IF ~FitsFix(a) THEN NaN
        ELSE FromFix(SinFix(ToFix(a)))
        : a \in {A} } : TRUE
Cos(A) ==
    CHOOSE r \in {
        IF ~IsFin(a) THEN NaN
        ELSE IF IsTiny(a) THEN One
        ELSE IF ~FitsFix(a) THEN NaN
        ELSE FromFix(SinFix(ToFix(a) + HalfPiFix))
        : a \in {A} } : TRUE
Tan(A) == CHOOSE r \in { FDiv(Sin(a), Cos(a)) : a \in {A} } : TRUE

\* ln of the fixed-point mf in [Q, 2Q): 2 atanh((mf - Q) / (mf + Q)).
LnSeries(mf) ==
    Let(((mf - Q) * Q) \div (mf + Q), LAMBDA y :
    Let(MulQ(y, y), LAMBDA y2 :
    Let(Q \div 7 + MulQ(y2, Q \div 9), LAMBDA t3 :
    Let(Q \div 5 + MulQ(y2, t3), LAMBDA t2 :
    Let(Q \div 3 + MulQ(y2, t2), LAMBDA t1 :
        2 * (y + MulQ(y, MulQ(y2, t1))))))))

\* f64::ln.
Ln(A) ==
    CHOOSE r \in {
        IF IsNaN(a) \/ Sgn(a) < 0 THEN NaN
        ELSE IF IsInf(a) THEN Inf(1)
        ELSE IF IsZero(a) THEN Inf(-1)
        ELSE FromFix((a.e + MantBits - 1) * Ln2Fix
                     + LnSeries(a.m * 2^(FixBits - MantBits + 1)))
        : a \in {A} } : TRUE

\* e^r for the fixed-point r in [0, ln 2): the Taylor series to r^6.
ExpSeries(R) ==
    CHOOSE s \in {
        Let(Q + r \div 6, LAMBDA t6 :
        Let(Q + MulQ(r, t6) \div 5, LAMBDA t5 :
        Let(Q + MulQ(r, t5) \div 4, LAMBDA t4 :
        Let(Q + MulQ(r, t4) \div 3, LAMBDA t3 :
        Let(Q + MulQ(r, t3) \div 2, LAMBDA t2 : Q + MulQ(r, t2))))))
        : r \in {R} } : TRUE

\* e^v for the fixed-point v, as a float.
ExpFix(V) ==
    CHOOSE r \in {
        Let(IF v >= 0 THEN v \div Ln2Fix ELSE -((-v + Ln2Fix - 1) \div Ln2Fix), LAMBDA kk :
            Norm(ExpSeries(v - kk * Ln2Fix), kk - FixBits))
        : v \in {V} } : TRUE

\* x^y for a finite x > 0 and a finite y.
PowPos(x, y) ==
    Let(FMul(y, Ln(x)), LAMBDA v :
        IF IsZero(v) THEN One
        ELSE IF ~FitsFix(v) THEN (IF Sgn(v) > 0 THEN Inf(1) ELSE Zero)
        ELSE ExpFix(ToFix(v)))

\* f64::powf.
Powf(X, Y) ==
    CHOOSE r \in {
        IF IsZero(y) \/ x = One THEN One
        ELSE IF IsNaN(x) \/ IsNaN(y) THEN NaN
        ELSE IF IsInf(y)
             THEN (IF FAbs(x) = One THEN One
                   ELSE IF FGt(FAbs(x), One) = (Sgn(y) > 0) THEN Inf(1) ELSE Zero)
        ELSE IF IsZero(x) \/ IsInf(x)
             THEN (IF IsZero(x) = (Sgn(y) > 0)
                   THEN Zero
                   ELSE Inf(IF Sgn(x) < 0 /\ IsOddInteger(y) THEN -1 ELSE 1))
        ELSE IF Sgn(x) < 0
             THEN (IF ~IsInteger(y) THEN NaN
                   ELSE IF IsOddInteger(y) THEN FNeg(PowPos(FAbs(x), y))
                   ELSE PowPos(FAbs(x), y))
        ELSE PowPos(x, y)
        : x \in {X}, y \in {Y} } : TRUE

\* atan of the fixed-point u, |u| <= tan(pi/8): the Taylor series to u^11.
AtanSeries(U) ==
    CHOOSE s \in {
        Let(MulQ(u, u), LAMBDA u2 :
        Let(Q \div 9 - MulQ(u2, Q \div 11), LAMBDA t4 :
        Let(Q \div 7 - MulQ(u2, t4), LAMBDA t3 :
        Let(Q \div 5 - MulQ(u2, t3), LAMBDA t2 :
        Let(Q \div 3 - MulQ(u2, t2), LAMBDA t1 : u - MulQ(u, MulQ(u2, t1)))))))
        : u \in {U} } : TRUE

\* atan of the fixed-point t in [0, Q].
AtanFix(T) ==
    CHOOSE r \in {
        IF 12 * t > 5 * Q
        THEN QuarterPiFix + AtanSeries(-(((Q - t) * Q) \div (Q + t)))
        ELSE AtanSeries(t)
        : t \in {T} } : TRUE

\* f64::atan.
Atan(A) ==
    CHOOSE r \in {
        IF IsNaN(a) THEN NaN
        ELSE IF IsInf(a) THEN (IF Sgn(a) > 0 THEN FRAC_PI_2 ELSE FNeg(FRAC_PI_2))
        ELSE IF IsTiny(a) THEN a
        ELSE IF FLe(FAbs(a), One)
             THEN FromFix(Sgn(a) * AtanFix(ToFix(FAbs(a))))
             ELSE FromFix(Sgn(a) * (HalfPiFix - AtanFix(ToFix(FDiv(One, FAbs(a))))))
        : a \in {A} } : TRUE

\* f64::atan2: y.atan2(x), the angle of the point (x, y).
Atan2(Y, X) ==
    CHOOSE r \in {
        IF IsNaN(x) \/ IsNaN(y) THEN NaN
        ELSE IF IsZero(x)
             THEN (IF Sgn(y) > 0 THEN FRAC_PI_2
                   ELSE IF Sgn(y) < 0 THEN FNeg(FRAC_PI_2) ELSE Zero)
        ELSE IF Sgn(x) > 0 THEN Atan(FDiv(y, x))
        ELSE IF Sgn(y) >= 0 THEN FAdd(Atan(FDiv(y, x)), FromFix(PiFix))
        ELSE FSub(Atan(FDiv(y, x)), FromFix(PiFix))
        : y \in {Y}, x \in {X} } : TRUE

\* The integer square root of n > 0, from the guess g.
RECURSIVE ISqrtFrom(_, _)
ISqrtFrom(N, G) ==
    CHOOSE r \in {
        Let((g + n \div g) \div 2, LAMBDA h : IF h >= g THEN g ELSE ISqrtFrom(n, h))
        : n \in {N}, g \in {G} } : TRUE

\* f64::sqrt.
Sqrt(A) ==
    CHOOSE r \in {
        IF IsNaN(a) \/ Sgn(a) < 0 THEN NaN
        ELSE IF IsInf(a) \/ IsZero(a) THEN a
        ELSE IF (a.e + MantBits) % 2 = 0
             THEN Norm(ISqrtFrom(a.m * 4 * Mant, a.m * 4 * Mant), (a.e - MantBits - 2) \div 2)
             ELSE Norm(ISqrtFrom(a.m * 8 * Mant, a.m * 8 * Mant), (a.e - MantBits - 3) \div 2)
        : a \in {A} } : TRUE

\* f64::hypot: exact when one of the two is zero.
Hypot(X, Y) ==
    CHOOSE r \in {
        IF IsInf(x) \/ IsInf(y) THEN Inf(1)
        ELSE IF IsNaN(x) \/ IsNaN(y) THEN NaN
        ELSE IF IsZero(x) THEN FAbs(y)
        ELSE IF IsZero(y) THEN FAbs(x)
        ELSE Sqrt(FAdd(FMul(x, x), FMul(y, y)))
        : x \in {X}, y \in {Y} } : TRUE

(***************************************************************************)
(*                     PART 3: projections/lcc.rs                          *)
(***************************************************************************)

\* Option<f64>.
None == [some |-> FALSE, v |-> Zero]
Some(v) == [some |-> TRUE, v |-> v]
unwrap_or(o, d) == IF o.some THEN o.v ELSE d

\* Result<Option<f64>> of ParamList::try_angular_value: the parameter is
\* absent (Ok(None)), cannot be read (Err) or has a value (Ok(Some(v))).
Absent == [k |-> "absent", v |-> Zero]
Unreadable == [k |-> "err", v |-> Zero]
Given(v) == [k |-> "val", v |-> v]

\* ProjData::phi0() and ProjData::k0(): the context's reference latitude and
\* scale factor, 0 and 1 when unset.
ProjData_phi0(pd) == unwrap_or(pd.phi0, Zero)
ProjData_k0(pd) == unwrap_or(pd.k0, One)

\* math::msfn: cosphi / sqrt(1 - es * sinphi^2).
msfn(SINPHI, cosphi, es) ==
    CHOOSE r \in { FDiv(cosphi, Sqrt(FSub(One, FMul(es, FMul(sinphi, sinphi)))))
                   : sinphi \in {SINPHI} } : TRUE

\* math::tsfn: tan(pi/4 - phi/2) / ((1 - e sinphi) / (1 + e sinphi))^(e/2).
tsfn(phi, sinphi, e) ==
    Let(FMul(sinphi, e), LAMBDA s :
        FDiv(Tan(FMul(Half, FSub(FRAC_PI_2, phi))),
             Powf(FDiv(FSub(One, s), FAdd(One, s)), FMul(Half, e))))

\* math::phi2: the iteration for the inverse of tsfn, at most N_ITER steps,
\* until a step is within the tolerance.
N_ITER == 15
RECURSIVE phi2_loop(_, _, _, _)
phi2_loop(PHI, ts, e, i) ==
    CHOOSE r \in {
        Let(FMul(e, Sin(phi)), LAMBDA con :
        Let(FSub(FSub(FRAC_PI_2,
                      FMul(Two, Atan(FMul(ts, Powf(FDiv(FSub(One, con), FAdd(One, con)),
                                                   FMul(Half, e)))))),
                 phi), LAMBDA dphi :
            IF FLe(FAbs(dphi), EPS_10) THEN Ok(FAdd(phi, dphi))
            ELSE IF i <= 1 THEN Err("NonInvPhi2Convergence")
            ELSE phi2_loop(FAdd(phi, dphi), ts, e, i - 1)))
        : phi \in {PHI} } : TRUE
math_phi2(TS, e) ==
    CHOOSE r \in { phi2_loop(FSub(FRAC_PI_2, FMul(Two, Atan(ts))), ts, e, N_ITER)
                   : ts \in {TS} } : TRUE

\* ---- a faulty variant of IsConicLatEqual: <= instead of <.
IsConicLatEqual_le(phi1, phi2) == FLe(FAbs(FAdd(phi1, phi2)), EPS_10)

\* lcc.rs:48: the standard parallels are equal and opposite.
IsConicLatEqual(phi1, phi2) == FLt(FAbs(FAdd(phi1, phi2)), EPS_10)

\* lcc.rs:78, 91, 112: the latitude is within the tolerance of a pole.
IsPole(phi) == FLt(FAbs(FSub(FAbs(phi), FRAC_PI_2)), EPS_10)

\* ---- a faulty variant of SeedPhi0: overwrites a reference latitude already set.
SeedPhi0_overwrite(pd, phi1) == [pd EXCEPT !.phi0 = Some(phi1)]

\* lcc.rs:43: p.phi0 = p.phi0.or(Some(phi1)).
SeedPhi0(pd, phi1) ==
    [pd EXCEPT !.phi0 = IF pd.phi0.some THEN pd.phi0 ELSE Some(phi1)]

\* lcc.rs:56: the two parallels differ.
IsSecant(phi1, phi2) == FGe(FAbs(FSub(phi1, phi2)), EPS_10)

\* lcc.rs:64-74, 84-89: the cone constant n.
ConeConstant(el, phi1, phi2) ==
    Let(Sin(phi1), LAMBDA sinphi :
        IF ~IsSecant(phi1, phi2) THEN sinphi
        ELSE IF FNe(el.es, Zero)
        THEN Let(Sin(phi2), LAMBDA sinphi2 :
                 FDiv(Ln(FDiv(msfn(sinphi, Cos(phi1), el.es),
                              msfn(sinphi2, Cos(phi2), el.es))),
                      Ln(FDiv(tsfn(phi1, sinphi, el.e), tsfn(phi2, sinphi2, el.e)))))
        ELSE FDiv(Ln(FDiv(Cos(phi1), Cos(phi2))),
                  Ln(FDiv(Tan(FAdd(FRAC_PI_4, FMul(Half, phi2))),
                          Tan(FAdd(FRAC_PI_4, FMul(Half, phi1)))))))

\* lcc.rs:77, 90: the scale c.
ConeScale(el, phi1, N) ==
    CHOOSE r \in {
        IF FNe(el.es, Zero)
        THEN Let(Sin(phi1), LAMBDA sinphi :
                 FDiv(FMul(msfn(sinphi, Cos(phi1), el.es),
                           Powf(tsfn(phi1, sinphi, el.e), FNeg(n))),
                      n))
        ELSE FDiv(FMul(Cos(phi1), Powf(Tan(FAdd(FRAC_PI_4, FMul(Half, phi1))), n)), n)
        : n \in {N} } : TRUE

\* lcc.rs:78-82, 91-95: the reference radius rho0.
ReferenceRadius(el, phi0, c, n) ==
    IF IsPole(phi0) THEN Zero
    ELSE IF FNe(el.es, Zero)
         THEN FMul(c, Powf(tsfn(phi0, Sin(phi0), el.e), n))
         ELSE FMul(c, Powf(Tan(FAdd(FRAC_PI_4, FMul(Half, phi0))), FNeg(n)))

\* lcc.rs:52-107: the rest of init, once the parallels are accepted.
Projection_build(pd, phi1, phi2) ==
    Let(ProjData_phi0(pd), LAMBDA phi0 :
    Let(ConeConstant(pd.ellps, phi1, phi2), LAMBDA n :
    Let(ConeScale(pd.ellps, phi1, n), LAMBDA c :
        [phi1 |-> phi1, phi2 |-> phi2, n |-> n,
         rho0 |-> ReferenceRadius(pd.ellps, phi0, c, n), c |-> c,
         ellips |-> FNe(pd.ellps.es, Zero), e |-> pd.ellps.e, k0 |-> ProjData_k0(pd),
         \* not fields of Projection: what init read and decided
         phi0 |-> phi0, secant |-> IsSecant(phi1, phi2)])))

\* ---- a faulty variant of Projection_init: the context's phi0 is seeded
\* ---- from lat_1 whether or not lat_2 is given.
Projection_init_seed_always(pd, prm) ==
    IF prm.lat_1.k = "err" THEN [p |-> pd, res |-> Err("ParameterValueError")]
    ELSE LET phi1 == IF prm.lat_1.k = "val" THEN prm.lat_1.v ELSE Zero
         IN  IF prm.lat_2.k = "err" THEN [p |-> pd, res |-> Err("ParameterValueError")]
             ELSE LET pd1 == SeedPhi0(pd, phi1)
                      phi2 == IF prm.lat_2.k = "val" THEN prm.lat_2.v ELSE phi1
                  IN  IF IsConicLatEqual(phi1, phi2)
                      THEN [p |-> pd1, res |-> Err("ProjErrConicLatEqual")]
                      ELSE [p |-> pd1, res |-> Ok(Projection_build(pd1, phi1, phi2))]

\* Projection::init: the context as init leaves it, and its result.
Projection_init(pd, prm) ==
    IF prm.lat_1.k = "err" THEN [p |-> pd, res |-> Err("ParameterValueError")]
    ELSE LET phi1 == IF prm.lat_1.k = "val" THEN prm.lat_1.v ELSE Zero
         IN  IF prm.lat_2.k = "err" THEN [p |-> pd, res |-> Err("ParameterValueError")]
             ELSE LET pd1 == IF prm.lat_2.k = "val" THEN pd ELSE SeedPhi0(pd, phi1)
                      phi2 == IF prm.lat_2.k = "val" THEN prm.lat_2.v ELSE phi1
                  IN  IF IsConicLatEqual(phi1, phi2)
                      THEN [p |-> pd1, res |-> Err("ProjErrConicLatEqual")]
                      ELSE [p |-> pd1, res |-> Ok(Projection_build(pd1, phi1, phi2))]

\* ---- a faulty variant of PoleSignAgrees: the sign of the pole is not looked at.
PoleSignAgrees_any(phi, n) == TRUE

\* lcc.rs:113: the negation of (phi * self.n) <= 0.
PoleSignAgrees(phi, n) == ~FLe(FMul(phi, n), Zero)

\* lcc.rs:112-125: the polar radius of forward, or the error at a pole of
\* the wrong sign.
Forward_rho(self, phi) ==
    IF IsPole(phi)
    THEN IF ~PoleSignAgrees(phi, self.n) THEN Err("ToleranceConditionError")
         ELSE Ok(Zero)
    ELSE Ok(FMul(self.c,
                 IF self.ellips
                 THEN Powf(tsfn(phi, Sin(phi), self.e), self.n)
                 ELSE Powf(Tan(FAdd(FRAC_PI_4, FMul(Half, phi))), FNeg(self.n))))

\* Projection::forward. The result carries the polar radius it computed.
Projection_forward(self, lam0, phi, z) ==
    Let(Forward_rho(self, phi), LAMBDA r :
        IF ~r.ok THEN [res |-> Err(r.err), rho |-> NaN, iter |-> FALSE]
        ELSE Let(FMul(lam0, self.n), LAMBDA lam :
                 [res |-> Ok(<<FMul(self.k0, FMul(r.val, Sin(lam))),
                                FMul(self.k0, FSub(self.rho0, FMul(r.val, Cos(lam)))),
                                z>>),
                  rho |-> r.val, iter |-> FALSE]))

\* ---- a faulty variant of ApexLatitude: the north pole whatever the sign of n.
ApexLatitude_north(n) == FRAC_PI_2

\* lcc.rs:160: the pole of the apex.
ApexLatitude(n) == IF FGt(n, Zero) THEN FRAC_PI_2 ELSE FNeg(FRAC_PI_2)

\* lcc.rs:147-157: inverse away from the apex, from the descaled x, the
\* recentred y and their polar radius.
Inverse_polar(self, x1, y1, rho1, z) ==
    Let(FLt(self.n, Zero), LAMBDA neg :
    Let(IF neg THEN FNeg(rho1) ELSE rho1, LAMBDA rho :
    Let(FDiv(Atan2(IF neg THEN FNeg(x1) ELSE x1, IF neg THEN FNeg(y1) ELSE y1), self.n),
        LAMBDA lam :
        IF self.ellips
        THEN Let(math_phi2(Powf(FDiv(rho, self.c), FDiv(One, self.n)), self.e), LAMBDA ph :
                 IF ~ph.ok THEN [res |-> Err(ph.err), rho |-> rho1, iter |-> TRUE]
                 ELSE [res |-> Ok(<<lam, ph.val, z>>), rho |-> rho1, iter |-> TRUE])
        ELSE [res |-> Ok(<<lam,
                           FSub(FMul(Two, Atan(Powf(FDiv(self.c, rho), FDiv(One, self.n)))),
                                FRAC_PI_2),
                           z>>),
              rho |-> rho1, iter |-> FALSE])))

\* Projection::inverse. The result carries the polar radius it computed and
\* whether math::phi2 was called.
Projection_inverse(self, x0, y0, z) ==
    Let(FDiv(x0, self.k0), LAMBDA x1 :
    Let(FSub(self.rho0, FDiv(y0, self.k0)), LAMBDA y1 :
    Let(Hypot(x1, y1), LAMBDA rho1 :
        IF FNe(rho1, Zero)
        THEN Inverse_polar(self, x1, y1, rho1, z)
        ELSE [res |-> Ok(<<Zero, ApexLatitude(self.n), z>>), rho |-> rho1, iter |-> FALSE])))

(***************************************************************************)
(*                      The inputs of the lcc model                        *)
(***************************************************************************)

\* f64::to_radians of a whole number of degrees.
Deg(d) == FDiv(FMul(Flt(d), FromFix(PiFix)), Flt(180))
\* One unit in the last place of the finite nonzero a.
Ulp(a) == Fin(HalfMant, a.e - (MantBits - 1))
\* k units in the last place above a.
Above(a, k) == FAdd(a, FMul(Flt(k), Ulp(a)))

\* lat_1: absent, unreadable, zero, half the tolerance (the tolerance when
\* doubled by the defaulting of lat_2), and ordinary latitudes.
Lat1Params ==
    { Absent, Unreadable, Given(Zero),
      Given(FMul(Half, EPS_10)),                            \* EPS_10 / 2
      Given(Deg(30)), Given(Deg(-30)), Given(Deg(60)) }

\* lat_2: absent, unreadable, the opposite of 30 degrees exactly and within,
\* at and beyond the tolerance of it, and ordinary latitudes.
Lat2Params ==
    { Absent, Unreadable,
      Given(Deg(-30)), Given(Above(Deg(-30), 1)), Given(Above(Deg(-30), 4)),
      Given(Deg(30)), Given(Deg(60)), Given(Deg(-60)) }

\* The reference latitude of the context: unset, ordinary, at each pole,
\* within and at the tolerance of the north pole.
Phi0Options ==
    { None, Some(Deg(20)), Some(FRAC_PI_2), Some(FNeg(FRAC_PI_2)),
      Some(FSub(FRAC_PI_2, UlpPole)), Some(FSub(FRAC_PI_2, EPS_10)) }

\* The scale factor of the context: unset (1) or 1 - 2^-9.
K0Options == { None, Some(FSub(One, Fin(HalfMant, -MantBits - 8))) }

\* The ellipsoid of the context: a sphere, or es = 1/64 (e = 1/8).
Ellipsoids == { [es |-> Zero, e |-> Zero],
                [es |-> Fin(HalfMant, -MantBits - 5), e |-> Fin(HalfMant, -MantBits - 2)] }

Contexts == [phi0 : Phi0Options, k0 : K0Options, ellps : Ellipsoids]

\* The inputs of forward: every latitude below at longitude 1/2, and a few
\* other longitudes.
PhiValues ==
    { Zero, Deg(40), Deg(-40),
      FRAC_PI_2, FNeg(FRAC_PI_2),
      FSub(FRAC_PI_2, UlpPole), FAdd(FRAC_PI_2, UlpPole), FSub(FRAC_PI_2, EPS_10),
      FAdd(FNeg(FRAC_PI_2), UlpPole), FAdd(FNeg(FRAC_PI_2), EPS_10) }
ZValues == { Zero, Flt(7) }
ForwardInputs ==
    { <<Half, phi, Flt(7)>> : phi \in PhiValues }
    \cup { <<Zero, Deg(40), Zero>>, <<FNeg(One), Deg(-40), Zero>>,
           <<FNeg(One), FRAC_PI_2, Zero>>, <<FNeg(One), FNeg(FRAC_PI_2), Zero>> }

\* The inputs of inverse that are not the output of a forward call: the
\* apex (0, k0 * rho0) of the instance, and ordinary points.
InverseXY(self) ==
    { <<Zero, FMul(self.k0, self.rho0)>>, <<Zero, Zero>>, <<Half, One>> }

\* No forward or inverse call yet.
NoCall == [op |-> "none", a |-> Zero, b |-> Zero, z |-> Zero, res |-> Pending,
           rho |-> NaN, iter |-> FALSE, chained |-> FALSE, fwdphi |-> NaN]

\* Projection::init on the context and the parameters.
Init_lcc ==
    /\ IsPending(proj)
    /\ \E r \in { Projection_init(p, params) } :
         /\ p' = r.p
         /\ proj' = r.res
    /\ UNCHANGED <<params, p0, call>>
    /\ UNCHANGED geoVars

\* Projection::forward on the instance.
Forward ==
    /\ proj.ok /\ call.op = "none"
    /\ \E in \in ForwardInputs :
         \E r \in { Projection_forward(proj.val, in[1], in[2], in[3]) } :
           call' = [op |-> "forward", a |-> in[1], b |-> in[2], z |-> in[3], res |-> r.res,
                    rho |-> r.rho, iter |-> r.iter, chained |-> FALSE, fwdphi |-> NaN]
    /\ UNCHANGED <<params, p, p0, proj>>
    /\ UNCHANGED geoVars

\* Projection::inverse on the instance, on a point of its own.
Inverse ==
    /\ proj.ok /\ call.op = "none"
    /\ \E xy \in InverseXY(proj.val), z \in ZValues :
         /\ (z = Zero) = ~IsZero(xy[1])
         /\ \E r \in { Projection_inverse(proj.val, xy[1], xy[2], z) } :
              call' = [op |-> "inverse", a |-> xy[1], b |-> xy[2], z |-> z, res |-> r.res,
                       rho |-> r.rho, iter |-> r.iter, chained |-> FALSE, fwdphi |-> NaN]
    /\ UNCHANGED <<params, p, p0, proj>>
    /\ UNCHANGED geoVars

\* Projection::inverse on the output of the forward call just made.
InverseOfForward ==
    /\ proj.ok /\ call.op = "forward" /\ call.res.ok
    /\ \E o \in { call.res.val } :
         \E r \in { Projection_inverse(proj.val, o[1], o[2], o[3]) } :
           call' = [op |-> "inverse", a |-> o[1], b |-> o[2], z |-> o[3], res |-> r.res,
                    rho |-> r.rho, iter |-> r.iter, chained |-> TRUE, fwdphi |-> call.b]
    /\ UNCHANGED <<params, p, p0, proj>>
    /\ UNCHANGED geoVars

NextLcc ==
    \/ Init_lcc
    \/ Forward
    \/ Inverse
    \/ InverseOfForward

\* Nothing to transform.
IdleGeo ==
    /\ geom = [kind |-> "none", pts |-> <<>>]
    /\ orig = geom
    /\ f = <<>>
    /\ res = Pending
    /\ calls = <<>>

InitLcc ==
    /\ IdleGeo
    /\ params \in [lat_1 : Lat1Params, lat_2 : Lat2Params]
    /\ p \in Contexts
    /\ p0 = p
    /\ proj = Pending
    /\ call = NoCall

\* The geo_types adaptors.
SpecGeo == InitGeo /\ [][NextGeo]_vars

\* The lcc projection.
SpecLcc == InitLcc /\ [][NextLcc]_vars

(***************************************************************************)
(*                   PART 4: the properties checked                        *)
(***************************************************************************)

\* The closure's result for the original value of leaf i.
Expected(i) == FromPair(f[Pair(orig.pts[i])].val)
\* The closure was invoked on the original values of leaves 1..n, once
\* each, in that order, and on nothing else.
InvokedOnFirst(n) ==
    /\ Len(calls) = n
    /\ \A i \in 1..n : calls[i] = Pair(orig.pts[i])

\* C1 (fail-fast traversal): when the closure first fails at leaf k of a
\* MultiPoint or LineString, transform_coordinates returns that leaf's
\* error, the closure is invoked on leaves 1..k only, and the leaves after
\* k keep their original values.
C1_FailFast ==
    (Done /\ IsSeqKind /\ FirstFail # 0) =>
        /\ res = Err(f[Pair(orig.pts[FirstFail])].err)
        /\ InvokedOnFirst(FirstFail)
        /\ Len(geom.pts) = Len(orig.pts)
        /\ \A i \in (FirstFail + 1)..Len(orig.pts) : geom.pts[i] = orig.pts[i]

\* A MultiPoint of three leaves whose first and last leaves fail with
\* different errors has been traversed.
C1_Witness ==
    /\ Done /\ geom.kind = "MultiPoint" /\ Len(orig.pts) = 3
    /\ FirstFail = 1 /\ Fails(orig.pts[3])
    /\ f[Pair(orig.pts[3])].err # f[Pair(orig.pts[1])].err

\* C2 as stated (no rollback, every shape): after a failed traversal every
\* leaf before the failing one holds its transformed value, a Line's start
\* included.
C2_NoRollbackEveryShape ==
    (Done /\ FirstFail # 0) =>
        \A i \in 1..(FirstFail - 1) : geom.pts[i] = Expected(i)

\* C2 as amended (no rollback, a Line excepted): after a failed traversal of
\* a Coord, Point, MultiPoint or LineString every leaf before the failing
\* one holds its transformed value and the failing leaf its original value;
\* a Line is rebuilt only when both endpoints succeeded, so a failed
\* traversal leaves both its endpoints at their original values.
C2_NoRollbackExceptLine ==
    (Done /\ FirstFail # 0) =>
        /\ ~res.ok
        /\ IF geom.kind = "Line"
           THEN geom.pts = orig.pts
           ELSE /\ \A i \in 1..(FirstFail - 1) : geom.pts[i] = Expected(i)
                /\ geom.pts[FirstFail] = orig.pts[FirstFail]

\* A Line whose start the closure moves and whose end it fails on has been
\* traversed.
C2_Witness ==
    /\ Done /\ geom.kind = "Line" /\ FirstFail = 2
    /\ Expected(1) # orig.pts[1]
    /\ Len(calls) = 2

\* C3 (successful traversal): when the closure succeeds on every leaf,
\* transform_coordinates returns Ok, the closure was invoked exactly once
\* per leaf in ascending order (start before end for a Line), every leaf
\* equals the closure's result for its original value, the number of leaves
\* is unchanged, and identical leaves end up identical.
C3_SuccessfulTraversal ==
    (Done /\ FirstFail = 0) =>
        /\ res = Ok(<<>>)
        /\ InvokedOnFirst(Len(orig.pts))
        /\ Len(geom.pts) = Len(orig.pts)
        /\ \A i \in 1..Len(orig.pts) : geom.pts[i] = Expected(i)
        /\ \A i, j \in 1..Len(orig.pts) :
              orig.pts[i] = orig.pts[j] => geom.pts[i] = geom.pts[j]

\* A LineString of MaxLen identical leaves, which the closure moves, has
\* been traversed.
C3_Witness ==
    /\ Done /\ geom.kind = "LineString" /\ Len(orig.pts) = MaxLen
    /\ FirstFail = 0
    /\ \A i \in 1..MaxLen : orig.pts[i] = orig.pts[1] /\ geom.pts[i] # orig.pts[i]

\* ---- the lcc properties ----
\* init has returned.
InitDone == ~IsPending(proj)
\* The effective standard parallels: lat_1, or 0 when omitted; lat_2, or
\* the first when omitted.
Phi1Eff == IF params.lat_1.k = "val" THEN params.lat_1.v ELSE Zero
Phi2Eff == IF params.lat_2.k = "val" THEN params.lat_2.v ELSE Phi1Eff
ParamsReadable == params.lat_1.k # "err" /\ params.lat_2.k # "err"
\* |a| is less than the tolerance.
WithinEps(a) == FLt(FAbs(a), EPS_10)
\* phi is within the tolerance of a pole.
NearPole(phi) == WithinEps(FSub(FAbs(phi), FRAC_PI_2))
\* The pole whose sign is the sign of n.
PoleOf(n) == IF FGt(n, Zero) THEN FRAC_PI_2 ELSE FNeg(FRAC_PI_2)

\* C4 (degenerate init): with readable parameters, init fails with
\* ProjErrConicLatEqual, and so builds no instance, exactly when
\* |phi1 + phi2| < EPS_10 for the effective standard parallels.
C4_DegenerateInit ==
    (InitDone /\ ParamsReadable) =>
        ((proj = Err("ProjErrConicLatEqual")) <=> WithinEps(FAdd(Phi1Eff, Phi2Eff)))

\* init has rejected two given parallels whose sum is within the tolerance
\* and not zero.
C4_Witness ==
    /\ proj = Err("ProjErrConicLatEqual")
    /\ params.lat_1.k = "val" /\ params.lat_2.k = "val"
    /\ ~IsZero(FAdd(Phi1Eff, Phi2Eff))

\* C5 (parameter defaulting): when lat_2 is omitted (and lat_1 readable),
\* the context's phi0 after init is lat_1 if it was unset and is unchanged
\* if it was set, and an instance that init builds has phi2 = phi1, is not
\* secant and has n = sin(phi1); when phi0 was set or lat_2 is given, init
\* leaves the context's phi0 unchanged.
C5_ParameterDefaulting ==
    (InitDone /\ params.lat_1.k # "err") =>
        /\ params.lat_2.k = "absent" =>
             /\ p.phi0 = (IF p0.phi0.some THEN p0.phi0 ELSE Some(Phi1Eff))
             /\ proj.ok =>
                  /\ proj.val.phi1 = Phi1Eff
                  /\ proj.val.phi2 = Phi1Eff
                  /\ ~proj.val.secant
                  /\ proj.val.n = Sin(Phi1Eff)
        /\ (p0.phi0.some \/ params.lat_2.k = "val") => p.phi0 = p0.phi0

\* init has built an instance from lat_1 alone and seeded the context's
\* unset phi0 with it.
C5_Witness ==
    /\ proj.ok
    /\ params.lat_1.k = "val" /\ params.lat_2.k = "absent"
    /\ ~p0.phi0.some /\ p.phi0 = Some(params.lat_1.v)
    /\ ~IsZero(params.lat_1.v)

\* C6 (forward at a pole): for phi within EPS_10 of a pole, forward
\* returns Ok with polar radius 0, the point (0, k0 * rho0, z), if and only
\* if phi * n > 0, and ToleranceConditionError otherwise; for any other
\* phi forward does not return ToleranceConditionError.
C6_ForwardAtPole ==
    call.op = "forward" =>
        IF NearPole(call.b)
        THEN IF FGt(FMul(call.b, proj.val.n), Zero)
             THEN /\ call.res = Ok(<<Zero, FMul(proj.val.k0, proj.val.rho0), call.z>>)
                  /\ call.rho = Zero
             ELSE call.res = Err("ToleranceConditionError")
        ELSE call.res # Err("ToleranceConditionError")

\* forward has returned the pole point for a latitude within the tolerance
\* of the south pole, not the pole itself, on a cone of negative n whose
\* reference radius is not 0.
C6_Witness ==
    /\ call.op = "forward" /\ call.res.ok
    /\ NearPole(call.b) /\ FAbs(call.b) # FRAC_PI_2
    /\ FLt(proj.val.n, Zero)
    /\ ~IsZero(proj.val.rho0)

\* The apex result of inverse, for the instance and the z of the call.
ApexResult == Ok(<<Zero, PoleOf(proj.val.n), call.z>>)
\* The last call is inverse on the output of a successful forward call at
\* a pole.
InverseOfPolePoint == call.op = "inverse" /\ call.chained /\ NearPole(call.fwdphi)

\* C8, first part (inverse at the apex): when the polar radius
\* hypot(x / k0, rho0 - y / k0) is exactly 0, inverse returns longitude 0,
\* the pole whose sign is the sign of n and z, without calling math::phi2.
C8_ApexBranch ==
    (call.op = "inverse" /\ call.rho = Zero) => (call.res = ApexResult /\ ~call.iter)

\* C8 as stated: the first part, and inverse on the output of a successful
\* forward call at a pole returns longitude 0 and the pole of n.
C8_InverseAtApex ==
    /\ C8_ApexBranch
    /\ InverseOfPolePoint => call.res = ApexResult

\* C8 as amended: the first part, and inverse on the output of a
\* successful forward call at a pole returns longitude 0 and the pole of n
\* when k0 is 1 or rho0 is 0, so that (k0 * rho0) / k0 is rho0 exactly.
C8_InverseAtApexExact ==
    /\ C8_ApexBranch
    /\ (InverseOfPolePoint /\ (proj.val.k0 = One \/ proj.val.rho0 = Zero)) =>
          (call.res = ApexResult /\ call.rho = Zero /\ ~call.iter)

\* inverse has taken the apex branch on the pole point of an ellipsoidal
\* instance of negative n whose reference radius is not 0.
C8_Witness ==
    /\ InverseOfPolePoint /\ call.rho = Zero
    /\ proj.val.ellips /\ FLt(proj.val.n, Zero) /\ ~IsZero(proj.val.rho0)
    /\ call.res = Ok(<<Zero, FNeg(FRAC_PI_2), call.z>>)

\* C9 (polar radius zero only at the matching pole): the polar radius of a
\* forward call is 0 only for a latitude within EPS_10 of the pole whose
\* sign is the sign of n, and the reference radius rho0 of an instance is 0
\* only if phi0 is within EPS_10 of that pole.
C9_RhoZeroOnlyAtMatchingPole ==
    /\ (call.op = "forward" /\ call.res.ok /\ call.rho = Zero) =>
          (NearPole(call.b) /\ FGt(FMul(call.b, proj.val.n), Zero))
    /\ (proj.ok /\ proj.val.rho0 = Zero) =>
          (NearPole(proj.val.phi0) /\ FGt(FMul(proj.val.phi0, proj.val.n), Zero))

\* C10 as stated (failed init leaves the context unchanged).
C10_FailedInitNoChange ==
    (InitDone /\ ~proj.ok) => p = p0

\* C10 as amended: after a failed init the context's k0 and ellipsoid are
\* unchanged, and its phi0 is unchanged unless the error is
\* ProjErrConicLatEqual, lat_2 was omitted and phi0 was unset: then phi0 has
\* been set to lat_1 (0 when omitted).
C10_FailedInitSeedsOnly ==
    (InitDone /\ ~proj.ok) =>
        /\ p.k0 = p0.k0 /\ p.ellps = p0.ellps
        /\ IF proj.err = "ProjErrConicLatEqual" /\ params.lat_2.k = "absent" /\ ~p0.phi0.some
           THEN p.phi0 = Some(Phi1Eff)
           ELSE p.phi0 = p0.phi0

\* init has failed with ProjErrConicLatEqual on two given parallels, the
\* context's phi0 unset before and after.
C10_Witness ==
    /\ proj = Err("ProjErrConicLatEqual")
    /\ params.lat_2.k = "val"
    /\ ~p0.phi0.some /\ p = p0

====
